---- MODULE Spec2Model ----
(***************************************************************************)
(* Model of the two administration scripts of devmet-app:                  *)
(*   scripts/create_github_tasks.py   (label / issue / project creator)    *)
(*   scripts/close_completed_issues.py (issue closer)                      *)
(* One behaviour is one or more invocations of one script against a remote *)
(* service.  Every HTTP round trip is two steps: the request is sent, then *)
(* it is answered; the request is logged, the remote's reply is kept until *)
(* the next answer, and the wrapper's reaction to the reply is part of the *)
(* answering step.                                                         *)
(***************************************************************************)
EXTENDS Integers, Sequences, FiniteSets, TLC

VARIABLES
  script,           \* which script's main() this behaviour runs
  GITHUB_TOKEN,     \* os.environ.get('GITHUB_TOKEN', '')
  REPO_OWNER,       \* os.environ.get('GITHUB_OWNER', '')
  argv,             \* sys.argv[1:]
  TASKS_TO_CREATE,  \* the statically configured identifier list
  comment,          \* the comment argument of close_issue
  pc,               \* position of main()
  tasks_to_create,  \* main's local list of selected task records
  labelIdx,         \* position of create_all_labels in LABEL_COLORS.items()
  issueIdx,         \* position of main's loop over tasks_to_create
  closeIdx,         \* position of the closer's loop over issues_to_close
  created_issues,   \* manager.created_issues
  project,          \* main's local "project" (NoProject for None)
  remoteLabels,     \* remote service: label name -> label
  remoteIssues,     \* remote service: issues created, in order
  remoteClosed,     \* remote service: issue numbers in state closed
  remoteComments,   \* remote service: issue numbers commented, in order
  remoteProjects,   \* remote service: number of project boards created
  outstanding,      \* HTTP requests issued and not yet answered
  calls,            \* HTTP requests of the current run that were answered, in order
  reply,            \* the remote's reply to the last request
  conflicts,        \* labels whose creation was answered 422 in this run
  syncOk,           \* every label request of this run got its success reply
  synced,           \* remote labels when a run first ended an all-success sync
  accepted,         \* issue creations of this run answered 201 with a number
  faults,           \* failing replies the remote has given so far
  runs,             \* invocations of main() started so far
  warned,           \* identifiers a "not found" warning was printed for
  report,           \* what main() printed last about the run as a whole
  listed,           \* identifiers listed by the usage message
  summary,          \* the figures of the printed summary
  printed,          \* status lines printed by the last wrapper call
  returned,         \* what the last wrapper call returned to its caller
  escaped           \* wrapper an exception escaped from ("none" if none)

inputs  == <<script, GITHUB_TOKEN, REPO_OWNER, argv, TASKS_TO_CREATE, comment>>
program == <<pc, tasks_to_create, labelIdx, issueIdx, closeIdx, created_issues, project>>
remote  == <<remoteLabels, remoteIssues, remoteClosed, remoteComments, remoteProjects>>
history == <<conflicts, syncOk, synced, accepted>>
observe == <<outstanding, calls, reply, history, faults, runs, warned, report, listed,
            summary, printed, returned, escaped>>
vars    == <<inputs, program, remote, observe>>

-----------------------------------------------------------------------------
(* Bounds of the exploration.                                              *)

\* longest command line explored
MaxArgs == 1
\* failing replies (unexpected status, malformed body, transport error) the
\* remote may give in one behaviour
MaxFaults == 1
\* invocations of main() in one behaviour
MaxRuns == 2

-----------------------------------------------------------------------------
(* Module-level configuration and catalogs of create_github_tasks.py.      *)

REPO_NAME == "devmet-app"
API_BASE == "https://api.github.com"

\* the dict LABEL_COLORS as the sequence of its items, in insertion order
LABEL_COLORS ==
  << [name |-> "P0-Critical", color |-> "d73a4a"],
     [name |-> "P1-High", color |-> "ff9500"],
     [name |-> "P2-Medium", color |-> "fbca04"],
     [name |-> "P3-Low", color |-> "0e8a16"],
     [name |-> "feature", color |-> "0075ca"],
     [name |-> "chore", color |-> "d4c5f9"],
     [name |-> "enhancement", color |-> "84b6eb"],
     [name |-> "bug", color |-> "d73a4a"],
     [name |-> "backend", color |-> "5319e7"],
     [name |-> "frontend", color |-> "1d76db"],
     [name |-> "infrastructure", color |-> "0e8a16"],
     [name |-> "ai", color |-> "d876e3"],
     [name |-> "integration", color |-> "fbca04"],
     [name |-> "testing", color |-> "c5def5"],
     [name |-> "docs", color |-> "0075ca"],
     [name |-> "XS", color |-> "c2e0c6"],
     [name |-> "S", color |-> "bfdadc"],
     [name |-> "M", color |-> "fef2c0"],
     [name |-> "L", color |-> "fad8c7"],
     [name |-> "XL", color |-> "f9d0c4"],
     [name |-> "Sprint-1", color |-> "c5def5"],
     [name |-> "Sprint-2", color |-> "bfdadc"],
     [name |-> "Sprint-3", color |-> "d4c5f9"],
     [name |-> "Sprint-4", color |-> "fef2c0"],
     [name |-> "Backlog", color |-> "ededed"] >>

label_descriptions ==
  << [name |-> "P0-Critical", description |-> "Critical priority - must complete"],
     [name |-> "P1-High", description |-> "High priority - should complete"],
     [name |-> "P2-Medium", description |-> "Medium priority - nice to have"],
     [name |-> "P3-Low", description |-> "Low priority - future enhancement"],
     [name |-> "feature", description |-> "New feature or functionality"],
     [name |-> "chore", description |-> "Maintenance or setup task"],
     [name |-> "enhancement", description |-> "Enhancement to existing feature"],
     [name |-> "bug", description |-> "Bug fix"],
     [name |-> "backend", description |-> "Backend development"],
     [name |-> "frontend", description |-> "Frontend development"],
     [name |-> "infrastructure", description |-> "Infrastructure and DevOps"],
     [name |-> "ai", description |-> "AI and machine learning features"],
     [name |-> "integration", description |-> "Third-party integrations"],
     [name |-> "testing", description |-> "Testing and QA"],
     [name |-> "docs", description |-> "Documentation"],
     [name |-> "XS", description |-> "Extra Small (1-2 hours)"],
     [name |-> "S", description |-> "Small (2-4 hours)"],
     [name |-> "M", description |-> "Medium (4-8 hours)"],
     [name |-> "L", description |-> "Large (1-2 days)"],
     [name |-> "XL", description |-> "Extra Large (2-5 days)"],
     [name |-> "Sprint-1", description |-> "Week 1 - Foundation"],
     [name |-> "Sprint-2", description |-> "Week 2 - Core Backend"],
     [name |-> "Sprint-3", description |-> "Week 3 - Frontend"],
     [name |-> "Sprint-4", description |-> "Week 4 - AI & Polish"],
     [name |-> "Backlog", description |-> "Future enhancements"] >>

\* the task catalog, in the order of the dict; a task's markdown description
\* is passed on unread, so it is kept as a short text naming the task
ALL_TASKS ==
  << [key |-> "TASK-004", id |-> "TASK-004", title |-> "Install Backend Dependencies",
      type |-> "chore", priority |-> "P0-Critical", category |-> "backend", size |-> "S",
      sprint |-> "Sprint-1", description |-> "description of TASK-004"],
     [key |-> "TASK-005", id |-> "TASK-005", title |-> "Configure Prisma and Database Schema",
      type |-> "chore", priority |-> "P0-Critical", category |-> "infrastructure", size |-> "L",
      sprint |-> "Sprint-1", description |-> "description of TASK-005"],
     [key |-> "TASK-006", id |-> "TASK-006", title |-> "Create Fastify Server Setup",
      type |-> "feature", priority |-> "P0-Critical", category |-> "backend", size |-> "M",
      sprint |-> "Sprint-1", description |-> "description of TASK-006"],
     [key |-> "TASK-007", id |-> "TASK-007", title |-> "Create Configuration Management",
      type |-> "chore", priority |-> "P0-Critical", category |-> "backend", size |-> "S",
      sprint |-> "Sprint-1", description |-> "description of TASK-007"],
     [key |-> "TASK-008", id |-> "TASK-008", title |-> "Set Up Logging System",
      type |-> "chore", priority |-> "P1-High", category |-> "backend", size |-> "S",
      sprint |-> "Sprint-1", description |-> "description of TASK-008"],
     [key |-> "TASK-009", id |-> "TASK-009", title |-> "Create Database Connection Service",
      type |-> "chore", priority |-> "P0-Critical", category |-> "infrastructure", size |-> "S",
      sprint |-> "Sprint-1", description |-> "description of TASK-009"],
     [key |-> "TASK-010", id |-> "TASK-010", title |-> "Create Redis Connection Service",
      type |-> "chore", priority |-> "P0-Critical", category |-> "infrastructure", size |-> "S",
      sprint |-> "Sprint-1", description |-> "description of TASK-010"],
     [key |-> "TASK-011", id |-> "TASK-011", title |-> "Set Up Testing Framework",
      type |-> "chore", priority |-> "P1-High", category |-> "testing", size |-> "M",
      sprint |-> "Sprint-1", description |-> "description of TASK-011"],
     [key |-> "TASK-012", id |-> "TASK-012", title |-> "Create NPM Scripts",
      type |-> "chore", priority |-> "P1-High", category |-> "infrastructure", size |-> "XS",
      sprint |-> "Sprint-1", description |-> "description of TASK-012"],
     [key |-> "TASK-013", id |-> "TASK-013", title |-> "Create Database Seeding Script",
      type |-> "chore", priority |-> "P2-Medium", category |-> "infrastructure", size |-> "M",
      sprint |-> "Sprint-1", description |-> "description of TASK-013"],
     [key |-> "TASK-014", id |-> "TASK-014", title |-> "Implement GitHub OAuth Flow",
      type |-> "feature", priority |-> "P0-Critical", category |-> "backend", size |-> "L",
      sprint |-> "Sprint-2", description |-> "description of TASK-014"],
     [key |-> "TASK-015", id |-> "TASK-015", title |-> "Create JWT Authentication Middleware",
      type |-> "feature", priority |-> "P0-Critical", category |-> "backend", size |-> "M",
      sprint |-> "Sprint-2", description |-> "description of TASK-015"],
     [key |-> "TASK-016", id |-> "TASK-016", title |-> "Implement User Profile Management",
      type |-> "feature", priority |-> "P1-High", category |-> "backend", size |-> "M",
      sprint |-> "Sprint-2", description |-> "description of TASK-016"],
     [key |-> "TASK-017", id |-> "TASK-017", title |-> "Implement Repository Listing from GitHub",
      type |-> "feature", priority |-> "P0-Critical", category |-> "integration", size |-> "M",
      sprint |-> "Sprint-2", description |-> "description of TASK-017"],
     [key |-> "TASK-018", id |-> "TASK-018", title |-> "Implement Repository Connection",
      type |-> "feature", priority |-> "P0-Critical", category |-> "integration", size |-> "L",
      sprint |-> "Sprint-2", description |-> "description of TASK-018"],
     [key |-> "TASK-019", id |-> "TASK-019", title |-> "Implement Historical Data Import",
      type |-> "feature", priority |-> "P1-High", category |-> "integration", size |-> "XL",
      sprint |-> "Sprint-2", description |-> "description of TASK-019"],
     [key |-> "TASK-020", id |-> "TASK-020", title |-> "Create Webhook Endpoint",
      type |-> "feature", priority |-> "P0-Critical", category |-> "integration", size |-> "M",
      sprint |-> "Sprint-2", description |-> "description of TASK-020"],
     [key |-> "TASK-021", id |-> "TASK-021", title |-> "Implement Webhook Queue Processing",
      type |-> "feature", priority |-> "P0-Critical", category |-> "backend", size |-> "L",
      sprint |-> "Sprint-2", description |-> "description of TASK-021"],
     [key |-> "TASK-022", id |-> "TASK-022", title |-> "Implement Event Processors",
      type |-> "feature", priority |-> "P0-Critical", category |-> "backend", size |-> "L",
      sprint |-> "Sprint-2", description |-> "description of TASK-022"],
     [key |-> "TASK-023", id |-> "TASK-023", title |-> "Implement Basic Metrics Service",
      type |-> "feature", priority |-> "P0-Critical", category |-> "backend", size |-> "L",
      sprint |-> "Sprint-2", description |-> "description of TASK-023"],
     [key |-> "TASK-024", id |-> "TASK-024", title |-> "Create Metrics API Endpoints",
      type |-> "feature", priority |-> "P0-Critical", category |-> "backend", size |-> "M",
      sprint |-> "Sprint-2", description |-> "description of TASK-024"],
     [key |-> "TASK-025", id |-> "TASK-025", title |-> "Implement Metrics Aggregation Jobs",
      type |-> "chore", priority |-> "P1-High", category |-> "backend", size |-> "M",
      sprint |-> "Sprint-2", description |-> "description of TASK-025"],
     [key |-> "TASK-026", id |-> "TASK-026", title |-> "Initialize Frontend Project",
      type |-> "chore", priority |-> "P0-Critical", category |-> "frontend", size |-> "M",
      sprint |-> "Sprint-3", description |-> "description of TASK-026"],
     [key |-> "TASK-027", id |-> "TASK-027", title |-> "Create API Client Library",
      type |-> "chore", priority |-> "P0-Critical", category |-> "frontend", size |-> "M",
      sprint |-> "Sprint-3", description |-> "description of TASK-027"],
     [key |-> "TASK-028", id |-> "TASK-028", title |-> "Implement Authentication Flow (Frontend)",
      type |-> "feature", priority |-> "P0-Critical", category |-> "frontend", size |-> "L",
      sprint |-> "Sprint-3", description |-> "description of TASK-028"],
     [key |-> "TASK-029", id |-> "TASK-029", title |-> "Create Layout and Navigation",
      type |-> "feature", priority |-> "P1-High", category |-> "frontend", size |-> "M",
      sprint |-> "Sprint-3", description |-> "description of TASK-029"],
     [key |-> "TASK-030", id |-> "TASK-030", title |-> "Create Main Dashboard Page",
      type |-> "feature", priority |-> "P0-Critical", category |-> "frontend", size |-> "L",
      sprint |-> "Sprint-3", description |-> "description of TASK-030"],
     [key |-> "TASK-031", id |-> "TASK-031", title |-> "Implement Metrics Charts",
      type |-> "feature", priority |-> "P1-High", category |-> "frontend", size |-> "L",
      sprint |-> "Sprint-3", description |-> "description of TASK-031"],
     [key |-> "TASK-032", id |-> "TASK-032", title |-> "Create Repository Management Page",
      type |-> "feature", priority |-> "P0-Critical", category |-> "frontend", size |-> "L",
      sprint |-> "Sprint-3", description |-> "description of TASK-032"],
     [key |-> "TASK-033", id |-> "TASK-033", title |-> "Create Individual Developer Metrics Page",
      type |-> "feature", priority |-> "P1-High", category |-> "frontend", size |-> "M",
      sprint |-> "Sprint-3", description |-> "description of TASK-033"],
     [key |-> "TASK-034", id |-> "TASK-034", title |-> "Implement WebSocket Server (Backend)",
      type |-> "feature", priority |-> "P1-High", category |-> "backend", size |-> "M",
      sprint |-> "Sprint-3", description |-> "description of TASK-034"],
     [key |-> "TASK-035", id |-> "TASK-035", title |-> "Emit Real-time Events from Backend",
      type |-> "feature", priority |-> "P1-High", category |-> "backend", size |-> "M",
      sprint |-> "Sprint-3", description |-> "description of TASK-035"],
     [key |-> "TASK-036", id |-> "TASK-036", title |-> "Implement WebSocket Client (Frontend)",
      type |-> "feature", priority |-> "P1-High", category |-> "frontend", size |-> "M",
      sprint |-> "Sprint-3", description |-> "description of TASK-036"],
     [key |-> "TASK-037", id |-> "TASK-037", title |-> "Add Real-time Updates to Dashboard",
      type |-> "feature", priority |-> "P1-High", category |-> "frontend", size |-> "S",
      sprint |-> "Sprint-3", description |-> "description of TASK-037"],
     [key |-> "TASK-038", id |-> "TASK-038", title |-> "Create Settings Page",
      type |-> "feature", priority |-> "P2-Medium", category |-> "frontend", size |-> "M",
      sprint |-> "Sprint-3", description |-> "description of TASK-038"] >>


TaskKeys == [i \in DOMAIN ALL_TASKS |-> ALL_TASKS[i].key]

InTasks(id) == \E i \in DOMAIN ALL_TASKS : ALL_TASKS[i].key = id

\* ALL_TASKS[task_id]
TaskAt(id) == ALL_TASKS[CHOOSE i \in DOMAIN ALL_TASKS : ALL_TASKS[i].key = id]

\* label_descriptions.get(name, '')
LabelDescription(name) ==
  IF \E i \in DOMAIN label_descriptions : label_descriptions[i].name = name
  THEN label_descriptions[CHOOSE i \in DOMAIN label_descriptions :
                            label_descriptions[i].name = name].description
  ELSE ""

\* create_label sending no description
LabelData_no_description(i) ==
  [name |-> LABEL_COLORS[i].name, color |-> LABEL_COLORS[i].color,
   description |-> ""]

\* the JSON payload create_label sends for the i-th catalog entry
LabelData(i) ==
  [name |-> LABEL_COLORS[i].name, color |-> LABEL_COLORS[i].color,
   description |-> LabelDescription(LABEL_COLORS[i].name)]

\* the request body with the type label put before the priority label
create_task_issue_body_type_first(task) ==
  [title |-> "[" \o task.id \o "] " \o task.title,
   body |-> task.description,
   labels |-> <<task.type, task.priority, task.category, task.size, task.sprint>>]

\* what create_task_issue_body and create_issue make of a task: the JSON
\* payload of the issue-creation request
create_task_issue_body(task) ==
  [title |-> "[" \o task.id \o "] " \o task.title,
   body |-> task.description,
   labels |-> <<task.priority, task.type, task.category, task.size, task.sprint>>]

-----------------------------------------------------------------------------
(* HTTP: requests, replies, URLs.                                          *)

Http(status, body) == [kind |-> "http", status |-> status, body |-> body]

\* requests.post / requests.patch raising instead of returning a response
TransportError == [kind |-> "exc", status |-> 0, body |-> "none"]

\* no request has been answered yet
NoReply == [kind |-> "none", status |-> 0, body |-> "none"]

Call(method, url, json) == [method |-> method, url |-> url, json |-> json]

RepoUrl == API_BASE \o "/repos/" \o REPO_OWNER \o "/" \o REPO_NAME

LabelsUrl == RepoUrl \o "/labels"

LabelUrl(name) == RepoUrl \o "/labels/" \o name

IssuesUrl == RepoUrl \o "/issues"

IssueUrl(n) == RepoUrl \o "/issues/" \o ToString(n)

CommentsUrl(n) == RepoUrl \o "/issues/" \o ToString(n) \o "/comments"

GraphqlUrl == "https://api.github.com/graphql"

\* statuses the remote answers with when it rejects a request
FaultStatuses == {409, 500}

\* the failing replies the remote may still give
FaultReplies ==
  IF faults < MaxFaults
  THEN {Http(s, "error") : s \in FaultStatuses} \cup {TransportError}
  ELSE {}

\* well-formed status replies with a malformed body, under the same budget
Malformed(status, shapes) ==
  IF faults < MaxFaults THEN {Http(status, b) : b \in shapes} ELSE {}

Charge(rep, expected) == IF rep = expected THEN faults ELSE faults + 1

-----------------------------------------------------------------------------
(* Values of the program.                                                  *)

Creator == "create_github_tasks"
Closer == "close_completed_issues"

\* Python's None for main's "project"
NoProject == [present |-> FALSE, fields |-> {}]

\* no all-success label synchronisation has ended yet
NoSnapshot == [taken |-> FALSE, run |-> 0, labels |-> << >>]

NoSummary == [labels |-> 0, issues |-> 0, board |-> FALSE]

\* a wrapper's outcome: whether an exception leaves it, and the status lines
\* it printed
Returned(lines) == [raise |-> FALSE, lines |-> lines]
Raised(lines) == [raise |-> TRUE, lines |-> lines]

-----------------------------------------------------------------------------
(* Inputs and initial states.                                              *)

BoundedSeq(S, n) == UNION {[1..k -> S] : k \in 0..n}

\* identifiers tried on the command line: one of the catalog, one unknown
ArgIds == {"TASK-007", "TASK-999"}

\* values tried for TASKS_TO_CREATE: the list as committed (empty), an
\* edited list holding an unknown identifier ahead of two catalog ones, an
\* edited list holding an unknown identifier only, and an edited list
\* holding one catalog identifier twice
StaticChoices ==
  {<< >>, <<"TASK-404", "TASK-008", "TASK-009">>, <<"TASK-404">>,
   <<"TASK-008", "TASK-008">>}

\* the comment main() passes to close_issue
ClosingComment == "This task has already been completed."
\* close_issue's default comment=None (falsy, like the empty string)
NoComment == ""

LabelNames == {LABEL_COLORS[i].name : i \in DOMAIN LABEL_COLORS} \cup {"wontfix"}

AbsentLabel == [exists |-> FALSE, color |-> "", description |-> ""]

RemoteLabel(color, description) ==
  [exists |-> TRUE, color |-> color, description |-> description]

\* a repository without labels
EmptyRepo == [n \in LabelNames |-> AbsentLabel]

\* a repository that holds a catalog label with another colour, a catalog
\* label as the catalog defines it, and a label the catalog does not know
UsedRepo ==
  [n \in LabelNames |->
     CASE n = "P0-Critical" -> RemoteLabel("ffffff", "")
       [] n = "bug" -> RemoteLabel("d73a4a", "Bug fix")
       [] n = "wontfix" -> RemoteLabel("ffffff", "This will not be worked on")
       [] OTHER -> AbsentLabel]

RemoteLabelChoices == {EmptyRepo, UsedRepo}

Init ==
  /\ script \in {Creator, Closer}
  /\ GITHUB_TOKEN \in {"", "ghp_0123456789"}
  /\ REPO_OWNER \in {"", "octocat"}
  /\ argv \in (IF script = Creator THEN BoundedSeq(ArgIds, MaxArgs) ELSE {<< >>})
  /\ TASKS_TO_CREATE \in (IF script = Creator THEN StaticChoices ELSE {<< >>})
  /\ comment \in (IF script = Closer THEN {ClosingComment, NoComment} ELSE {NoComment})
  /\ pc = "main"
  /\ tasks_to_create = << >>
  /\ labelIdx = 1
  /\ issueIdx = 1
  /\ closeIdx = 1
  /\ created_issues = << >>
  /\ project = NoProject
  /\ remoteLabels \in RemoteLabelChoices
  /\ remoteIssues = << >>
  /\ remoteClosed = {}
  /\ remoteComments = << >>
  /\ remoteProjects = 0
  /\ calls = << >>
  /\ reply = NoReply
  /\ conflicts = {}
  /\ syncOk = TRUE
  /\ synced = NoSnapshot
  /\ accepted = 0
  /\ outstanding = << >>
  /\ faults = 0
  /\ runs = 1
  /\ warned = << >>
  /\ report = "none"
  /\ listed = << >>
  /\ summary = NoSummary
  /\ printed = 0
  /\ returned = "nothing"
  /\ escaped = "none"

-----------------------------------------------------------------------------
(* create_github_tasks.py: main() up to the remote calls.                  *)

\* configuration checks that look at the token only
ConfigError_token_only(token, owner) ==
  IF token = "" THEN "token_error" ELSE "none"

\* the configuration checks at the top of the creator's main()
ConfigError(token, owner) ==
  IF token = "" THEN "token_error"
  ELSE IF owner = "" THEN "owner_error"
  ELSE "none"

CheckConfig ==
  /\ script = Creator
  /\ pc = "main"
  /\ LET e == ConfigError(GITHUB_TOKEN, REPO_OWNER)
     IN /\ pc' = IF e = "none" THEN "select" ELSE "done"
        /\ report' = e
  /\ UNCHANGED <<inputs, outstanding, tasks_to_create, labelIdx, issueIdx, closeIdx,
                 created_issues, project, remote, calls, reply, history, faults, runs, warned,
                 listed, summary, printed, returned, escaped>>

\* a selection that reads the static list ahead of the command line
SelectionSource_static_first(args, static) ==
  IF static # << >> THEN "static"
  ELSE IF Len(args) > 0 THEN "argv"
  ELSE "none"

\* which list main() reads the identifiers from
SelectionSource(args, static) ==
  IF Len(args) > 0 THEN "argv"
  ELSE IF static # << >> THEN "static"
  ELSE "none"

\* a selection loop that gives up at the first unknown identifier
SelectKnown_stop_at_unknown(ids) ==
  LET bad == {i \in DOMAIN ids : ~InTasks(ids[i])}
      n == IF bad = {} THEN Len(ids)
           ELSE (CHOOSE i \in bad : \A j \in bad : i <= j) - 1
  IN [i \in 1..n |-> TaskAt(ids[i])]

\* a selection that keeps the first occurrence of each identifier only
SelectKnown_first_occurrence(ids) ==
  LET keep == {i \in DOMAIN ids :
                 InTasks(ids[i]) /\ \A j \in 1..(i - 1) : ids[j] # ids[i]}
      Nth(n) == CHOOSE i \in keep : Cardinality({j \in keep : j < i}) = n - 1
  IN [n \in 1..Cardinality(keep) |-> TaskAt(ids[Nth(n)])]

\* a selection that reads the static list when it knows none of the
\* identifiers it was given
SelectKnown_fall_back(ids) ==
  LET known == SelectSeq(ids, InTasks)
      other == SelectSeq(TASKS_TO_CREATE, InTasks)
      use == IF known = << >> THEN other ELSE known
  IN [i \in 1..Len(use) |-> TaskAt(use[i])]

\* the loop "for task_id in ...: if task_id in ALL_TASKS: append else: warn"
SelectKnown(ids) ==
  LET known == SelectSeq(ids, InTasks)
  IN [i \in 1..Len(known) |-> TaskAt(known[i])]

NotInTasks(id) == ~InTasks(id)

SelectWarned(ids) == SelectSeq(ids, NotInTasks)

Select ==
  /\ pc = "select"
  /\ LET src == SelectionSource(argv, TASKS_TO_CREATE)
         ids == IF src = "argv" THEN argv ELSE TASKS_TO_CREATE
     IN IF src = "none"
        THEN /\ report' = "usage"
             /\ listed' = TaskKeys
             /\ pc' = "done"
             /\ UNCHANGED <<tasks_to_create, warned>>
        ELSE /\ tasks_to_create' = SelectKnown(ids)
             /\ warned' = SelectWarned(ids)
             /\ report' = IF SelectKnown(ids) = << >> THEN "no_valid_tasks" ELSE report
             /\ pc' = IF SelectKnown(ids) = << >> THEN "done" ELSE "labels"
             /\ UNCHANGED listed
  /\ UNCHANGED <<inputs, outstanding, labelIdx, issueIdx, closeIdx, created_issues, project,
                 remote, calls, reply, history, faults, runs, summary, printed, returned, escaped>>

-----------------------------------------------------------------------------
(* requests.post / requests.patch: issuing a request.                      *)

\* the list issues_to_close of the closer's main()
issues_to_close ==
  << [number |-> 7, task |-> "TASK-004", title |-> "Install Backend Dependencies"],
     [number |-> 8, task |-> "TASK-005", title |-> "Configure Prisma and Database Schema"],
     [number |-> 9, task |-> "TASK-006", title |-> "Create Fastify Server Setup"] >>

\* the positions of main() that stand at a requests.post or requests.patch
RequestPcs ==
  {"labels", "label_patch", "issues", "project_owner", "project_create",
   "comment", "close"}

\* the request the statement at pc issues
NextRequest ==
  CASE pc = "labels" -> Call("POST", LabelsUrl, LabelData(labelIdx))
    [] pc = "label_patch" ->
         Call("PATCH", LabelUrl(LabelData(labelIdx).name), LabelData(labelIdx))
    [] pc = "issues" ->
         Call("POST", IssuesUrl, create_task_issue_body(tasks_to_create[issueIdx]))
    [] pc = "project_owner" ->
         Call("POST", GraphqlUrl,
              [query |-> "owner_query", variables |-> <<"login", REPO_OWNER>>])
    [] pc = "project_create" ->
         Call("POST", GraphqlUrl,
              [query |-> "mutation",
               variables |-> <<"ownerId", "title", "DevMetrics Development">>])
    [] pc = "comment" ->
         Call("POST", CommentsUrl(issues_to_close[closeIdx].number),
              [body |-> comment])
    [] pc = "close" ->
         Call("PATCH", IssueUrl(issues_to_close[closeIdx].number),
              [state |-> "closed"])

\* a program that issues its next request while one is not yet answered
MayIssue_without_waiting(pending) == Len(pending) < 2

\* requests.post and requests.patch return (or raise) only once the request
\* is answered, and main() has one thread: a request statement is reached
\* with no request of the run pending
MayIssue(pending) == pending = << >>

\* the call of requests.post / requests.patch at pc sends its request
SendRequest ==
  /\ pc \in RequestPcs
  /\ MayIssue(outstanding)
  /\ outstanding' = Append(outstanding, NextRequest)
  /\ UNCHANGED <<inputs, program, remote, calls, reply, history, faults, runs,
                 warned, report, listed, summary, printed, returned, escaped>>

-----------------------------------------------------------------------------
(* GitHubTaskManager.create_label and create_all_labels.                   *)

\* create_label taking 422 for one more failure status: no update request
create_label_on_post_no_update(resp) ==
  IF resp.kind = "exc" THEN [raise |-> TRUE, lines |-> 0, patch |-> FALSE, ret |-> "None"]
  ELSE [raise |-> FALSE, lines |-> 1, patch |-> FALSE, ret |-> "None"]

\* the try block of create_label after the POST: 201 reports the creation,
\* 422 goes on to the PATCH, any other status reports the failure
create_label_on_post(resp) ==
  IF resp.kind = "exc" THEN [raise |-> TRUE, lines |-> 0, patch |-> FALSE, ret |-> "None"]
  ELSE IF resp.status = 201 THEN [raise |-> FALSE, lines |-> 1, patch |-> FALSE, ret |-> "None"]
  ELSE IF resp.status = 422 THEN [raise |-> FALSE, lines |-> 0, patch |-> TRUE, ret |-> "None"]
  ELSE [raise |-> FALSE, lines |-> 1, patch |-> FALSE, ret |-> "None"]

\* a create_label that returns whether the update succeeded
create_label_on_patch_bool(resp) ==
  IF resp.kind = "exc"
  THEN [raise |-> TRUE, lines |-> 0, patch |-> FALSE, ret |-> "False"]
  ELSE IF resp.status = 200
  THEN [raise |-> FALSE, lines |-> 1, patch |-> FALSE, ret |-> "True"]
  ELSE [raise |-> FALSE, lines |-> 0, patch |-> FALSE, ret |-> "False"]

\* the try block of create_label after the PATCH: only 200 is reported; no
\* path of create_label has a return statement, so its value is None
create_label_on_patch(resp) ==
  IF resp.kind = "exc" THEN [raise |-> TRUE, lines |-> 0, patch |-> FALSE, ret |-> "None"]
  ELSE IF resp.status = 200 THEN [raise |-> FALSE, lines |-> 1, patch |-> FALSE, ret |-> "None"]
  ELSE [raise |-> FALSE, lines |-> 0, patch |-> FALSE, ret |-> "None"]

\* a create_label without its except clause: the exception goes on
create_label_no_except(r) == r

\* "except Exception as e: print(...)" of create_label
create_label_except(r) ==
  IF r.raise THEN [raise |-> FALSE, lines |-> r.lines + 1, patch |-> FALSE, ret |-> "None"] ELSE r

\* a create_all_labels that makes the call for the first label twice
AfterLabel_first_twice(i) ==
  IF i = 1 /\ calls = << >> THEN [pc |-> "labels", labelIdx |-> 1]
  ELSE IF i < Len(LABEL_COLORS)
  THEN [pc |-> "labels", labelIdx |-> i + 1]
  ELSE [pc |-> "issues", labelIdx |-> i + 1]

\* a create_all_labels that passes over the second catalog entry
AfterLabel_skip_second(i) ==
  IF i = 1 THEN [pc |-> "labels", labelIdx |-> 3]
  ELSE IF i < Len(LABEL_COLORS)
  THEN [pc |-> "labels", labelIdx |-> i + 1]
  ELSE [pc |-> "issues", labelIdx |-> i + 1]

\* a main() that starts on the issues once the first label is done
AfterLabel_leave_early(i) == [pc |-> "issues", labelIdx |-> i + 1]

\* where create_all_labels (and main after it) goes once label i is done
AfterLabel(i) ==
  IF i < Len(LABEL_COLORS)
  THEN [pc |-> "labels", labelIdx |-> i + 1]
  ELSE [pc |-> "issues", labelIdx |-> i + 1]

\* the snapshot kept once create_all_labels ends with every request answered
\* by its success reply; the first one is kept
Snapshot(ended, ok, labels) ==
  IF ended /\ ok /\ ~synced.taken
  THEN [taken |-> TRUE, run |-> runs, labels |-> labels]
  ELSE synced

\* the remote's answer to a well-formed label creation
LabelPostReply(name) ==
  IF remoteLabels[name].exists THEN Http(422, "already_exists") ELSE Http(201, "label")

CreateLabelPost ==
  /\ pc = "labels"
  /\ outstanding # << >>
  /\ LET data == LabelData(labelIdx)
         expected == LabelPostReply(data.name)
     IN \E rep \in {expected} \cup FaultReplies :
          LET r == create_label_except(create_label_on_post(rep))
              next == AfterLabel(labelIdx)
          IN /\ calls' = Append(calls, Head(outstanding))
             /\ outstanding' = Tail(outstanding)
             /\ reply' = rep
             /\ conflicts' = IF rep.kind = "http" /\ rep.status = 422
                              THEN conflicts \cup {data.name}
                              ELSE conflicts
             /\ faults' = Charge(rep, expected)
             /\ remoteLabels' =
                  IF rep.kind = "http" /\ rep.status = 201
                  THEN [remoteLabels EXCEPT
                          ![data.name] = RemoteLabel(data.color, data.description)]
                  ELSE remoteLabels
             /\ syncOk' = (syncOk /\ rep = expected)
             /\ synced' = Snapshot(~r.raise /\ ~r.patch /\ next.pc = "issues",
                                   syncOk /\ rep = expected, remoteLabels')
             /\ UNCHANGED accepted
             /\ printed' = r.lines
             /\ returned' = IF r.raise \/ r.patch THEN returned ELSE r.ret
             /\ escaped' = IF r.raise THEN "create_label" ELSE escaped
             /\ pc' = IF r.raise THEN "crashed"
                      ELSE IF r.patch THEN "label_patch" ELSE next.pc
             /\ labelIdx' = IF r.raise \/ r.patch THEN labelIdx ELSE next.labelIdx
  /\ UNCHANGED <<inputs, tasks_to_create, issueIdx, closeIdx, created_issues,
                 project, remoteIssues, remoteClosed, remoteComments,
                 remoteProjects, runs, warned, report, listed, summary>>

CreateLabelPatch ==
  /\ pc = "label_patch"
  /\ outstanding # << >>
  /\ LET data == LabelData(labelIdx)
         expected == Http(200, "label")
     IN \E rep \in {expected} \cup FaultReplies :
          LET r == create_label_except(create_label_on_patch(rep))
              next == AfterLabel(labelIdx)
          IN /\ calls' = Append(calls, Head(outstanding))
             /\ outstanding' = Tail(outstanding)
             /\ reply' = rep
             /\ faults' = Charge(rep, expected)
             /\ remoteLabels' =
                  IF rep.kind = "http" /\ rep.status = 200
                  THEN [remoteLabels EXCEPT
                          ![data.name] = RemoteLabel(data.color, data.description)]
                  ELSE remoteLabels
             /\ syncOk' = (syncOk /\ rep = expected)
             /\ synced' = Snapshot(~r.raise /\ next.pc = "issues",
                                   syncOk /\ rep = expected, remoteLabels')
             /\ UNCHANGED <<conflicts, accepted>>
             /\ printed' = r.lines
             /\ returned' = IF r.raise THEN returned ELSE r.ret
             /\ escaped' = IF r.raise THEN "create_label" ELSE escaped
             /\ pc' = IF r.raise THEN "crashed" ELSE next.pc
             /\ labelIdx' = IF r.raise THEN labelIdx ELSE next.labelIdx
  /\ UNCHANGED <<inputs, tasks_to_create, issueIdx, closeIdx, created_issues,
                 project, remoteIssues, remoteClosed, remoteComments,
                 remoteProjects, runs, warned, report, listed, summary>>

-----------------------------------------------------------------------------
(* GitHubTaskManager.create_issue and main()'s loop over tasks_to_create.  *)

\* Python's None for an issue
NoIssue == [present |-> FALSE, fields |-> {}, number |-> 0, title |-> ""]

\* the dict response.json() returns, holding the named fields
IssueDict(fields, number, title) ==
  [present |-> TRUE, fields |-> fields, number |-> number, title |-> title]

\* a main() that appends whatever create_issue returned
Truthy_anything(d) == TRUE

\* Python truthiness of an Optional[Dict]
Truthy(d) == d.present /\ d.fields # {}

\* a create_issue that takes 200, not 201, for the creation of the issue
create_issue_try_expects_200(resp, number, title) ==
  IF resp.kind = "exc" THEN [raise |-> TRUE, lines |-> 0, ret |-> NoIssue]
  ELSE IF resp.status = 200
  THEN [raise |-> FALSE, lines |-> 1,
        ret |-> IssueDict({"number", "title"}, number, title)]
  ELSE [raise |-> FALSE, lines |-> 2, ret |-> NoIssue]

\* the try block of create_issue: 201 parses the body, prints the issue's
\* number and returns the issue; any other status prints two lines
create_issue_try(resp, number, title) ==
  IF resp.kind = "exc" THEN [raise |-> TRUE, lines |-> 0, ret |-> NoIssue]
  ELSE IF resp.status = 201
  THEN CASE resp.body = "full" ->
              [raise |-> FALSE, lines |-> 1,
               ret |-> IssueDict({"number", "title"}, number, title)]
         [] resp.body = "no_title" ->
              [raise |-> FALSE, lines |-> 1, ret |-> IssueDict({"number"}, number, "")]
         [] OTHER ->
              \* response.json() raises, or issue["number"] does
              [raise |-> TRUE, lines |-> 0, ret |-> NoIssue]
  ELSE [raise |-> FALSE, lines |-> 2, ret |-> NoIssue]

\* a create_issue without its except clause: the exception goes on
create_issue_no_except(r) == r

\* "except Exception as e: print(...); return None" of create_issue
create_issue_except(r) ==
  IF r.raise THEN [raise |-> FALSE, lines |-> r.lines + 1, ret |-> NoIssue] ELSE r

\* a main() that leaves the issue loop after its first task
AfterIssue_first_only(i) == [pc |-> "project_owner", issueIdx |-> i + 1]

\* main()'s loop over tasks_to_create, and create_project after it
AfterIssue(i) ==
  IF i < Len(tasks_to_create)
  THEN [pc |-> "issues", issueIdx |-> i + 1]
  ELSE [pc |-> "project_owner", issueIdx |-> i + 1]

CreateIssue ==
  /\ pc = "issues"
  /\ outstanding # << >>
  /\ LET req == create_task_issue_body(tasks_to_create[issueIdx])
         number == Len(remoteIssues) + 10
         expected == Http(201, "full")
     IN \E rep \in {expected} \cup FaultReplies
                       \cup Malformed(201, {"no_title", "no_number", "not_json"}) :
          LET r == create_issue_except(create_issue_try(rep, number, req.title))
              next == AfterIssue(issueIdx)
          IN /\ calls' = Append(calls, Head(outstanding))
             /\ outstanding' = Tail(outstanding)
             /\ reply' = rep
             /\ accepted' = IF rep.kind = "http" /\ rep.status = 201
                                /\ rep.body \in {"full", "no_title"}
                             THEN accepted + 1
                             ELSE accepted
             /\ UNCHANGED <<conflicts, syncOk, synced>>
             /\ faults' = Charge(rep, expected)
             /\ remoteIssues' =
                  IF rep.kind = "http" /\ rep.status = 201
                  THEN Append(remoteIssues, [number |-> number, title |-> req.title])
                  ELSE remoteIssues
             /\ printed' = r.lines
             /\ returned' = IF r.raise THEN returned
                            ELSE IF r.ret.present THEN "issue" ELSE "None"
             /\ escaped' = IF r.raise THEN "create_issue" ELSE escaped
             /\ created_issues' =
                  IF ~r.raise /\ Truthy(r.ret)
                  THEN Append(created_issues, r.ret)
                  ELSE created_issues
             /\ pc' = IF r.raise THEN "crashed" ELSE next.pc
             /\ issueIdx' = IF r.raise THEN issueIdx ELSE next.issueIdx
  /\ UNCHANGED <<inputs, tasks_to_create, labelIdx, closeIdx, project,
                 remoteLabels, remoteClosed, remoteComments, remoteProjects,
                 runs, warned, report, listed, summary>>

-----------------------------------------------------------------------------
(* GitHubTaskManager.create_project: the owner query, then the mutation.   *)

ProjectDict(fields) == [present |-> TRUE, fields |-> fields]

\* a create_project that goes on to the mutation after every answer to the
\* owner query
create_project_on_owner_any_status(resp) ==
  IF resp.kind = "exc"
  THEN [raise |-> TRUE, lines |-> 0, ret |-> NoProject, mutate |-> FALSE]
  ELSE [raise |-> FALSE, lines |-> 0, ret |-> NoProject, mutate |-> TRUE]

\* the try block of create_project after the owner query
create_project_on_owner(resp) ==
  IF resp.kind = "exc"
  THEN [raise |-> TRUE, lines |-> 0, ret |-> NoProject, mutate |-> FALSE]
  ELSE IF resp.status # 200
  THEN [raise |-> FALSE, lines |-> 1, ret |-> NoProject, mutate |-> FALSE]
  ELSE IF resp.body = "full"
  THEN [raise |-> FALSE, lines |-> 0, ret |-> NoProject, mutate |-> TRUE]
  ELSE \* response.json()['data']['user']['id'] raises
       [raise |-> TRUE, lines |-> 0, ret |-> NoProject, mutate |-> FALSE]

\* a create_project that takes every 200 answer to the mutation for a board
create_project_on_create_unread(resp) ==
  IF resp.kind = "exc"
  THEN [raise |-> TRUE, lines |-> 0, ret |-> NoProject, mutate |-> FALSE]
  ELSE IF resp.status # 200
  THEN [raise |-> FALSE, lines |-> 1, ret |-> NoProject, mutate |-> FALSE]
  ELSE [raise |-> FALSE, lines |-> 1,
        ret |-> ProjectDict({"id", "number", "title"}), mutate |-> FALSE]

\* the try block of create_project after the mutation
create_project_on_create(resp) ==
  IF resp.kind = "exc"
  THEN [raise |-> TRUE, lines |-> 0, ret |-> NoProject, mutate |-> FALSE]
  ELSE IF resp.status # 200
  THEN [raise |-> FALSE, lines |-> 1, ret |-> NoProject, mutate |-> FALSE]
  ELSE CASE resp.body = "full" ->
              [raise |-> FALSE, lines |-> 2,
               ret |-> ProjectDict({"id", "number", "title", "url"}), mutate |-> FALSE]
         [] resp.body = "no_title" ->
              [raise |-> FALSE, lines |-> 2,
               ret |-> ProjectDict({"id", "number", "url"}), mutate |-> FALSE]
         [] resp.body \in {"no_url", "null_project"} ->
              \* "Created project board" is printed, then project["url"] raises
              [raise |-> TRUE, lines |-> 1, ret |-> NoProject, mutate |-> FALSE]
         [] resp.body \in {"no_data", "no_createProjectV2"} ->
              [raise |-> FALSE, lines |-> 1, ret |-> NoProject, mutate |-> FALSE]
         [] OTHER ->
              \* "no_projectV2": ['projectV2'] raises; "null_data":
              \* 'createProjectV2' in None raises
              [raise |-> TRUE, lines |-> 0, ret |-> NoProject, mutate |-> FALSE]

\* a create_project without its except clause: the exception goes on
create_project_no_except(r) == r

\* "except Exception as e: print(...); return None" of create_project
create_project_except(r) ==
  IF r.raise
  THEN [raise |-> FALSE, lines |-> r.lines + 1, ret |-> NoProject, mutate |-> FALSE]
  ELSE r

CreateProjectOwner ==
  /\ pc = "project_owner"
  /\ outstanding # << >>
  /\ LET expected == Http(200, "full")
     IN \E rep \in {expected} \cup FaultReplies
                       \cup Malformed(200, {"no_data", "no_user", "null_user", "no_id"}) :
          LET r == create_project_except(create_project_on_owner(rep))
          IN /\ calls' = Append(calls, Head(outstanding))
             /\ outstanding' = Tail(outstanding)
             /\ reply' = rep
             /\ UNCHANGED history
             /\ faults' = Charge(rep, expected)
             /\ printed' = r.lines
             /\ returned' = IF r.raise \/ r.mutate THEN returned ELSE "None"
             /\ escaped' = IF r.raise THEN "create_project" ELSE escaped
             /\ project' = r.ret
             /\ pc' = IF r.raise THEN "crashed"
                      ELSE IF r.mutate THEN "project_create" ELSE "summary"
  /\ UNCHANGED <<inputs, tasks_to_create, labelIdx, issueIdx, closeIdx,
                 created_issues, remote, runs, warned, report, listed, summary>>

CreateProjectMutation ==
  /\ pc = "project_create"
  /\ outstanding # << >>
  /\ LET expected == Http(200, "full")
     IN \E rep \in {expected} \cup FaultReplies
                       \cup Malformed(200, {"no_title", "no_url", "null_project",
                                            "no_data", "no_createProjectV2",
                                            "no_projectV2", "null_data"}) :
          LET r == create_project_except(create_project_on_create(rep))
          IN /\ calls' = Append(calls, Head(outstanding))
             /\ outstanding' = Tail(outstanding)
             /\ reply' = rep
             /\ UNCHANGED history
             /\ faults' = Charge(rep, expected)
             /\ remoteProjects' =
                  IF rep.kind = "http" /\ rep.status = 200
                     /\ rep.body \in {"full", "no_title", "no_url"}
                  THEN remoteProjects + 1
                  ELSE remoteProjects
             /\ printed' = r.lines
             /\ returned' = IF r.raise THEN returned
                            ELSE IF r.ret.present THEN "project" ELSE "None"
             /\ escaped' = IF r.raise THEN "create_project" ELSE escaped
             /\ project' = r.ret
             /\ pc' = IF r.raise THEN "crashed" ELSE "summary"
  /\ UNCHANGED <<inputs, tasks_to_create, labelIdx, issueIdx, closeIdx,
                 created_issues, remoteLabels, remoteIssues, remoteClosed,
                 remoteComments, runs, warned, report, listed, summary>>

-----------------------------------------------------------------------------
(* main(): the summary.                                                    *)

\* the summary reads issue["number"] and issue["title"] of every created
\* issue, then project["title"] and project["url"] of a truthy project
SummaryIssuesRaise ==
  \E i \in DOMAIN created_issues :
     ~({"number", "title"} \subseteq created_issues[i].fields)

SummaryProjectRaise ==
  project.present /\ project.fields # {} /\ ~({"title", "url"} \subseteq project.fields)

\* a summary that counts the catalog labels the remote holds
LabelsEnsured_on_remote ==
  Cardinality({i \in DOMAIN LABEL_COLORS : remoteLabels[LABEL_COLORS[i].name].exists})

\* the figure of the line "Labels ensured: {len(LABEL_COLORS)}"
LabelsEnsured == Len(LABEL_COLORS)

Summary ==
  /\ pc = "summary"
  /\ report' = "summary"
  /\ summary' = [labels |-> LabelsEnsured,
                 issues |-> Len(created_issues),
                 board |-> ~SummaryIssuesRaise /\ project.present
                           /\ project.fields # {} /\ ~SummaryProjectRaise]
  /\ pc' = IF SummaryIssuesRaise \/ SummaryProjectRaise THEN "crashed" ELSE "done"
  /\ escaped' = IF SummaryIssuesRaise \/ SummaryProjectRaise THEN "main" ELSE escaped
  /\ UNCHANGED <<inputs, outstanding, tasks_to_create, labelIdx, issueIdx, closeIdx,
                 created_issues, project, remote, calls, reply, history, faults, runs, warned,
                 listed, printed, returned>>

-----------------------------------------------------------------------------
(* close_completed_issues.py.                                              *)

\* the configuration check at the top of the closer's main()
CloserConfigError(token, owner) ==
  IF token = "" \/ owner = "" THEN "env_error" ELSE "none"

\* a close_issue that posts its comment argument whatever it is
CloseIssueEntry_always_comment(c) == "comment"

\* "if comment:" at the top of close_issue
CloseIssueEntry(c) == IF c # NoComment THEN "comment" ELSE "close"

CloserCheckConfig ==
  /\ script = Closer
  /\ pc = "main"
  /\ LET e == CloserConfigError(GITHUB_TOKEN, REPO_OWNER)
     IN /\ pc' = IF e = "none" THEN CloseIssueEntry(comment) ELSE "done"
        /\ report' = e
  /\ UNCHANGED <<inputs, outstanding, tasks_to_create, labelIdx, issueIdx, closeIdx,
                 created_issues, project, remote, calls, reply, history, faults, runs, warned,
                 listed, summary, printed, returned, escaped>>

\* the first try block of close_issue: both statuses print one line
close_issue_on_comment(resp) ==
  IF resp.kind = "exc" THEN Raised(0) ELSE Returned(1)

\* a comment block without its except clause: the exception goes on
close_issue_comment_no_except(r) == r

\* "except Exception as e: print(...)" after the comment request
close_issue_comment_except(r) ==
  IF r.raise THEN Returned(r.lines + 1) ELSE r

\* where close_issue goes after the comment request
AfterComment(r) == IF r.raise THEN "crashed" ELSE "close"

CloserComment ==
  /\ pc = "comment"
  /\ outstanding # << >>
  /\ LET n == issues_to_close[closeIdx].number
         expected == Http(201, "comment")
     IN \E rep \in {expected} \cup FaultReplies :
          LET r == close_issue_comment_except(close_issue_on_comment(rep))
          IN /\ calls' = Append(calls, Head(outstanding))
             /\ outstanding' = Tail(outstanding)
             /\ reply' = rep
             /\ UNCHANGED history
             /\ faults' = Charge(rep, expected)
             /\ remoteComments' =
                  IF rep.kind = "http" /\ rep.status = 201
                  THEN Append(remoteComments, n)
                  ELSE remoteComments
             /\ printed' = r.lines
             /\ escaped' = IF r.raise THEN "close_issue" ELSE escaped
             /\ pc' = AfterComment(r)
  /\ UNCHANGED <<inputs, tasks_to_create, labelIdx, issueIdx, closeIdx,
                 created_issues, project, remoteLabels, remoteIssues,
                 remoteClosed, remoteProjects, runs, warned, report, listed,
                 summary, returned>>

\* a close_issue that reports success for every answer to its PATCH
close_issue_on_close_any_status(resp) ==
  IF resp.kind = "exc" THEN [raise |-> TRUE, lines |-> 0, ret |-> "False"]
  ELSE [raise |-> FALSE, lines |-> 1, ret |-> "True"]

\* the second try block of close_issue
close_issue_on_close(resp) ==
  IF resp.kind = "exc" THEN [raise |-> TRUE, lines |-> 0, ret |-> "False"]
  ELSE IF resp.status = 200 THEN [raise |-> FALSE, lines |-> 1, ret |-> "True"]
  ELSE [raise |-> FALSE, lines |-> 1, ret |-> "False"]

\* a close block without its except clause: the exception goes on
close_issue_close_no_except(r) == r

\* "except Exception as e: print(...); return False" after the close request
close_issue_close_except(r) ==
  IF r.raise THEN [raise |-> FALSE, lines |-> r.lines + 1, ret |-> "False"] ELSE r

\* main()'s loop over issues_to_close, and the closing report after it
AfterClose(i) ==
  IF i < Len(issues_to_close)
  THEN [pc |-> CloseIssueEntry(comment), closeIdx |-> i + 1, report |-> report]
  ELSE [pc |-> "done", closeIdx |-> i + 1, report |-> "closer_done"]

CloserClose ==
  /\ pc = "close"
  /\ outstanding # << >>
  /\ LET n == issues_to_close[closeIdx].number
         expected == Http(200, "issue")
     IN \E rep \in {expected} \cup FaultReplies :
          LET r == close_issue_close_except(close_issue_on_close(rep))
              next == AfterClose(closeIdx)
          IN /\ calls' = Append(calls, Head(outstanding))
             /\ outstanding' = Tail(outstanding)
             /\ reply' = rep
             /\ UNCHANGED history
             /\ faults' = Charge(rep, expected)
             /\ remoteClosed' =
                  IF rep.kind = "http" /\ rep.status = 200
                  THEN remoteClosed \cup {n}
                  ELSE remoteClosed
             /\ printed' = r.lines
             /\ returned' = IF r.raise THEN returned ELSE r.ret
             /\ escaped' = IF r.raise THEN "close_issue" ELSE escaped
             /\ pc' = IF r.raise THEN "crashed" ELSE next.pc
             /\ closeIdx' = IF r.raise THEN closeIdx ELSE next.closeIdx
             /\ report' = IF r.raise THEN report ELSE next.report
  /\ UNCHANGED <<inputs, tasks_to_create, labelIdx, issueIdx, created_issues,
                 project, remoteLabels, remoteIssues, remoteComments,
                 remoteProjects, runs, warned, listed, summary>>

-----------------------------------------------------------------------------
(* A later invocation of the same script against the same remote.          *)

Rerun ==
  /\ pc \in {"done", "crashed"}
  /\ runs < MaxRuns
  /\ runs' = runs + 1
  /\ pc' = "main"
  /\ tasks_to_create' = << >>
  /\ labelIdx' = 1
  /\ issueIdx' = 1
  /\ closeIdx' = 1
  /\ created_issues' = << >>
  /\ project' = NoProject
  /\ calls' = << >>
  /\ reply' = NoReply
  /\ conflicts' = {}
  /\ syncOk' = TRUE
  /\ accepted' = 0
  /\ warned' = << >>
  /\ report' = "none"
  /\ listed' = << >>
  /\ summary' = NoSummary
  /\ printed' = 0
  /\ returned' = "nothing"
  /\ escaped' = "none"
  /\ UNCHANGED <<inputs, outstanding, remote, faults, synced>>

Next ==
  \/ CheckConfig
  \/ Select
  \/ SendRequest
  \/ CreateLabelPost
  \/ CreateLabelPatch
  \/ CreateIssue
  \/ CreateProjectOwner
  \/ CreateProjectMutation
  \/ Summary
  \/ CloserCheckConfig
  \/ CloserComment
  \/ CloserClose
  \/ Rerun

Spec == Init /\ [][Next]_vars

\* the interpreter keeps executing main() and the remote answers every
\* request (with a response or with a transport exception)
FairSpec == Spec /\ WF_vars(Next)

-----------------------------------------------------------------------------
(* Reading the request log.                                                *)

Last(s) == s[Len(s)]

ConfigMissing == GITHUB_TOKEN = "" \/ REPO_OWNER = ""

IsLabelPost(c) == c.method = "POST" /\ c.url = LabelsUrl

IsIssuePost(c) == c.method = "POST" /\ c.url = IssuesUrl

LabelPosts == SelectSeq(calls, IsLabelPost)

IssueCalls == SelectSeq(calls, IsIssuePost)

\* the identifiers the run was given: the command line, else the static list
SuppliedIds == IF argv # << >> THEN argv ELSE TASKS_TO_CREATE

ValidSupplied == SelectSeq(SuppliedIds, InTasks)

\* create_all_labels of this run has returned
SyncEnded == script = Creator /\ labelIdx > Len(LABEL_COLORS)

-----------------------------------------------------------------------------
(* Claims.                                                                 *)

\* after a label creation answered `status`, the update of that label is the
\* request create_label makes next
PatchPendingAfter(status) ==
  (calls # << >> /\ IsLabelPost(Last(calls))
     /\ reply.kind = "http" /\ reply.status = status)
  => (pc = "label_patch" /\ LABEL_COLORS[labelIdx].name = Last(calls).json.name)

\* C1 as stated, with the conflict answered as status 409: after a label
\* creation answered 409, create_label goes on to update that label.
C1_Original == PatchPendingAfter(409)

\* C1 (amended): when the creation of a label is answered 422, the status
\* create_label takes for "label already exists", create_label makes exactly
\* one update (PATCH) request, to that label's URL and directly after the
\* creation request, and the run makes no second creation request for it.
C1_UpdateOnConflict ==
  LET posts == LabelsUrl
  IN /\ PatchPendingAfter(422)
     /\ \A k \in DOMAIN calls :
          (calls[k].method = "POST" /\ calls[k].url = posts
             /\ calls[k].json.name \in conflicts) =>
            LET patch == LabelUrl(calls[k].json.name)
            IN /\ \A j \in DOMAIN calls :
                    (calls[j].method = "POST" /\ calls[j].url = posts
                       /\ calls[j].json.name = calls[k].json.name) => j = k
               /\ IF k = Len(calls)
                  THEN pc = "label_patch"
                  ELSE calls[k + 1] = Call("PATCH", patch, calls[k].json)
               /\ \A j \in DOMAIN calls :
                    (calls[j].method = "PATCH" /\ calls[j].url = patch) => j = k + 1

C1_Witness ==
  /\ pc = "labels"
  /\ "P0-Critical" \in conflicts
  /\ \E k \in DOMAIN calls :
       calls[k].method = "PATCH" /\ calls[k].url = LabelUrl("P0-Critical")

\* C2: label synchronisation is idempotent.  Whatever labels the remote held
\* at the start, once a run of create_all_labels has ended with every request
\* answered by its success reply, every catalog label exists remotely with
\* the colour of LABEL_COLORS and the description of label_descriptions; and
\* from the end of the first such run on, later runs leave the remote labels
\* equal to the state that run left.
C2_LabelSyncIdempotent ==
  /\ (SyncEnded /\ syncOk) =>
       /\ synced.taken
       /\ \A i \in DOMAIN LABEL_COLORS :
            \E j \in DOMAIN label_descriptions :
              /\ label_descriptions[j].name = LABEL_COLORS[i].name
              /\ remoteLabels[LABEL_COLORS[i].name] =
                   [exists |-> TRUE, color |-> LABEL_COLORS[i].color,
                    description |-> label_descriptions[j].description]
  /\ synced.taken => remoteLabels = synced.labels

\* a second all-success run of create_all_labels has ended on a remote that
\* started with a stale catalog label and a first all-success run
C2_Witness ==
  /\ synced.taken /\ synced.run = 1 /\ runs = 2
  /\ SyncEnded /\ syncOk
  /\ "P0-Critical" \in conflicts
  /\ remoteLabels["wontfix"].exists

\* the issue-creation requests of this run have all been made
IssuesEnded ==
  script = Creator /\ pc \in {"project_owner", "project_create", "summary", "done", "crashed"}
    /\ report \notin {"token_error", "owner_error", "usage", "no_valid_tasks"}

\* C3: the issue-creation requests of a run are, in the order supplied, those
\* of the supplied identifiers that are keys of ALL_TASKS: the k-th request
\* carries title "[" + id + "] " + the task's title, body the task's
\* description, and the labels priority, type, category, size, sprint of the
\* task, those five in that order; once the issue loop has ended every such
\* identifier has had its request.
C3_IssueRequestOfTask ==
  LET sent == IssueCalls
      ids == ValidSupplied
  IN /\ Len(sent) <= Len(ids)
     /\ IssuesEnded => Len(sent) = Len(ids)
     /\ \A k \in DOMAIN sent :
          \E i \in DOMAIN ALL_TASKS :
            /\ ALL_TASKS[i].key = ids[k]
            /\ sent[k].json =
                 [title |-> "[" \o ids[k] \o "] " \o ALL_TASKS[i].title,
                  body |-> ALL_TASKS[i].description,
                  labels |-> <<ALL_TASKS[i].priority, ALL_TASKS[i].type,
                               ALL_TASKS[i].category, ALL_TASKS[i].size,
                               ALL_TASKS[i].sprint>>]

\* the run given TASK-008 by the static list has sent its issue request
C3_Witness ==
  /\ argv = << >>
  /\ IssuesEnded
  /\ \E k \in DOMAIN calls :
       /\ calls[k].method = "POST" /\ calls[k].url = IssuesUrl
       /\ calls[k].json.title = "[TASK-008] Set Up Logging System"
       /\ Len(calls[k].json.labels) = 5

ClosingRequests ==
  LET base == "https://api.github.com/repos/" \o REPO_OWNER \o "/devmet-app/issues/"
      Pair(n) ==
        << [method |-> "POST", url |-> base \o n \o "/comments",
            json |-> [body |-> comment]],
           [method |-> "PATCH", url |-> base \o n, json |-> [state |-> "closed"]] >>
  IN Pair("7") \o Pair("8") \o Pair("9")

\* C5: in the closer flow with a comment supplied, the requests made are, for
\* 7, then 8, then 9, one comment-creation request followed by one close
\* (PATCH state=closed) request: the close request is the one made next after
\* a comment request whatever that one was answered, and a run that has ended
\* has made all six.
C5_CommentThenClose ==
  (script = Closer /\ comment # NoComment) =>
    LET want == ClosingRequests
    IN /\ Len(calls) <= Len(want)
       /\ \A k \in DOMAIN calls : calls[k] = want[k]
       /\ (calls # << >> /\ calls[Len(calls)].method = "POST") => pc = "close"
       /\ (~ConfigMissing /\ pc \in {"done", "crashed"}) => calls = want

\* a closer run has ended with six requests although one comment request
\* failed: two comments were stored and the three issues are closed
C5_Witness ==
  /\ script = Closer /\ comment # NoComment
  /\ pc = "done" /\ runs = 1
  /\ Len(calls) = 6
  /\ faults = 1
  /\ Len(remoteComments) = 2
  /\ remoteClosed = {7, 8, 9}

\* C6: when GITHUB_TOKEN or GITHUB_OWNER is not configured, main() of either
\* script reports a configuration error and returns at once: the run makes no
\* HTTP request at all (no label, issue, comment, close or GraphQL call), the
\* remote keeps no trace of it, and the only step it takes is the one that
\* ends it with the error report.
C6_NoCallsWithoutConfig ==
  (GITHUB_TOKEN = "" \/ REPO_OWNER = "") =>
    /\ calls = << >>
    /\ reply = NoReply
    /\ remoteIssues = << >> /\ remoteComments = << >>
    /\ remoteClosed = {} /\ remoteProjects = 0
    /\ pc \in {"main", "done"}
    /\ pc = "main" => report = "none"
    /\ pc = "done" =>
         report = (IF script = Closer THEN "env_error"
                   ELSE IF GITHUB_TOKEN = "" THEN "token_error"
                   ELSE "owner_error")

\* a creator run with a token and no owner has ended on the owner error
C6_Witness ==
  /\ script = Creator
  /\ GITHUB_TOKEN # "" /\ REPO_OWNER = ""
  /\ argv # << >>
  /\ pc = "done" /\ report = "owner_error"
  /\ calls = << >>

\* the one issue-creation request of a run invoked with the argument TASK-007
Task007Requested ==
  /\ Len(IssueCalls) = 1
  /\ IssueCalls[1].json.title = "[TASK-007] Create Configuration Management"
  /\ IssueCalls[1].json.labels = <<"P0-Critical", "chore", "backend", "S", "Sprint-1">>

\* a configured creator run invoked with the single argument TASK-007 has ended
Task007RunEnded ==
  /\ script = Creator /\ GITHUB_TOKEN # "" /\ REPO_OWNER # ""
  /\ argv = <<"TASK-007">>
  /\ pc \in {"done", "crashed"}

\* C7 as stated: the run invoked with TASK-007 makes exactly one
\* issue-creation request, with the title and the five labels of the task,
\* and its summary reports 1 issue created.
C7_Original ==
  Task007RunEnded =>
    (Task007Requested /\ report = "summary" /\ summary.issues = 1)

\* C7 (amended): the run invoked with TASK-007 makes exactly one
\* issue-creation request, with the title and the five labels of the task;
\* its summary reports 1 issue created when that request was answered 201
\* with an issue whose number can be read, and 0 issues otherwise.
C7_OneIssueForTask007 ==
  /\ (script = Creator /\ argv = <<"TASK-007">>) => Len(IssueCalls) <= 1
  /\ Task007RunEnded =>
       /\ Task007Requested
       /\ report = "summary"
       /\ accepted \in {0, 1}
       /\ summary.issues = accepted

\* the run invoked with TASK-007 has ended with its request answered 201 and
\* a summary of 1 issue
C7_Witness ==
  /\ Task007RunEnded /\ pc = "done"
  /\ Task007Requested
  /\ Len(remoteIssues) = 1
  /\ summary.issues = 1

\* the run has selected exactly the identifiers of `ids` that are keys of
\* ALL_TASKS, in their order, and warned about the others
SelectedFrom(ids) ==
  LET IsKnown(id) == \E i \in DOMAIN ALL_TASKS : ALL_TASKS[i].key = id
      IsUnknown(id) == ~IsKnown(id)
      known == SelectSeq(ids, IsKnown)
  IN /\ Len(tasks_to_create) = Len(known)
     /\ \A k \in DOMAIN known : tasks_to_create[k].id = known[k]
     /\ warned = SelectSeq(ids, IsUnknown)
     /\ report # "usage"
     /\ listed = << >>

\* C8: task selection follows the precedence: identifiers on the command
\* line are used alone; with none there, a non-empty TASKS_TO_CREATE is used;
\* with neither, the run ends with the usage message, which lists every key
\* of ALL_TASKS, and no remote call is made.
C8_SelectionPrecedence ==
  (script = Creator /\ pc \notin {"main", "select"}
     /\ GITHUB_TOKEN # "" /\ REPO_OWNER # "") =>
    IF argv # << >> THEN SelectedFrom(argv)
    ELSE IF TASKS_TO_CREATE # << >> THEN SelectedFrom(TASKS_TO_CREATE)
    ELSE /\ report = "usage"
         /\ Len(listed) = 35
         /\ listed = [i \in 1..Len(ALL_TASKS) |-> ALL_TASKS[i].key]
         /\ tasks_to_create = << >>
         /\ calls = << >>
         /\ pc = "done"

\* both lists are given and the run has selected from the command line
C8_Witness ==
  /\ argv = <<"TASK-007">>
  /\ TASKS_TO_CREATE = <<"TASK-404", "TASK-008", "TASK-009">>
  /\ pc = "labels"
  /\ Len(tasks_to_create) = 1 /\ tasks_to_create[1].id = "TASK-007"
  /\ warned = << >>

\* C9: create_all_labels makes one creation attempt for every label of
\* LABEL_COLORS, in the order of LABEL_COLORS: the k-th creation request of
\* a run is for the k-th label, the loop stands at the label after the last
\* one requested, no failure of a creation or an update (status or transport
\* exception) ends the run or the loop, and a run that has left
\* create_all_labels has made all 25 creation requests.
C9_OneAttemptPerLabelInOrder ==
  script = Creator =>
    LET url == "https://api.github.com/repos/" \o REPO_OWNER \o "/devmet-app/labels"
        IsCreate(c) == c.method = "POST" /\ c.url = url
        posts == SelectSeq(calls, IsCreate)
    IN /\ Len(posts) <= Len(LABEL_COLORS)
       /\ \A k \in DOMAIN posts : posts[k].json.name = LABEL_COLORS[k].name
       /\ pc = "labels" => (labelIdx <= Len(LABEL_COLORS) /\ Len(posts) = labelIdx - 1)
       /\ pc = "label_patch" => (labelIdx <= Len(LABEL_COLORS) /\ Len(posts) = labelIdx)
       /\ escaped # "create_label"
       /\ (pc \in {"issues", "project_owner", "project_create", "summary"}
             \/ report = "summary" \/ escaped = "main")
            => Len(posts) = 25

\* create_all_labels has ended with 25 creation requests although the
\* creation of one label, not the last of the catalog, failed
C9_Witness ==
  /\ pc = "issues"
  /\ faults = 1
  /\ ~remoteLabels["P1-High"].exists
  /\ remoteLabels["Sprint-4"].exists
  /\ Len(LabelPosts) = 25

\* the run stands past the item of its last request: the wrapper that made
\* the request is at its next request or has returned to its caller, whose
\* loop stands at the next item
PastLastRequest ==
  LET last == calls[Len(calls)]
      repo == "https://api.github.com/repos/" \o REPO_OWNER \o "/devmet-app"
      IsLabelCreate(c) == c.method = "POST" /\ c.url = repo \o "/labels"
      IsIssueCreate(c) == c.method = "POST" /\ c.url = repo \o "/issues"
      IsClose(c) == c.method = "PATCH"
  IN IF script = Closer
     THEN IF last.method = "POST"
          THEN pc = "close"
          ELSE /\ pc \in {"comment", "close", "done"}
               /\ closeIdx = Len(SelectSeq(calls, IsClose)) + 1
               /\ returned \in {"True", "False"}
     ELSE IF last.url = "https://api.github.com/graphql"
     THEN \/ pc = "project_create" /\ reply = Http(200, "full")
          \/ pc \in {"summary", "done"} /\ returned \in {"None", "project"}
          \/ pc = "crashed" /\ escaped = "main" /\ report = "summary"
     ELSE IF IsIssueCreate(last)
     THEN /\ pc \in {"issues", "project_owner"}
          /\ issueIdx = Len(SelectSeq(calls, IsIssueCreate)) + 1
          /\ returned \in {"None", "issue"}
     ELSE \/ pc = "label_patch" /\ IsLabelCreate(last) /\ reply.status = 422
          \/ /\ pc \in {"labels", "issues"}
             /\ labelIdx = Len(SelectSeq(calls, IsLabelCreate)) + 1
             /\ returned = "None"

\* C10: no remote-call wrapper (create_label, create_issue, create_project,
\* close_issue) lets an error escape: whatever the status, the body or the
\* transport exception that answers a request, no exception leaves the
\* wrapper, the wrapper returns to its caller, and the run goes on with the
\* next item.
C10_NoErrorEscapesWrapper ==
  /\ escaped \notin {"create_label", "create_issue", "create_project", "close_issue"}
  /\ pc = "crashed" => escaped = "main"
  /\ calls # << >> => PastLastRequest

\* create_project has swallowed a transport exception and main has gone on
\* to its summary, which ended the run
C10_Witness ==
  /\ reply = TransportError
  /\ calls # << >> /\ calls[Len(calls)].url = GraphqlUrl
  /\ project = NoProject
  /\ returned = "None"
  /\ pc = "done" /\ report = "summary"

\* the last request of the run is the POST of a create_issue call, which has
\* been answered by `reply`
AfterCreateIssue ==
  /\ script = Creator /\ calls # << >>
  /\ calls[Len(calls)].method = "POST"
  /\ calls[Len(calls)].url =
       "https://api.github.com/repos/" \o REPO_OWNER \o "/devmet-app/issues"

\* every create_issue call so far has sent one POST: the loop over the
\* selected tasks stands at the task after the last one requested
OnePostPerCreateIssue ==
  script = Creator =>
    /\ Len(IssueCalls) = issueIdx - 1
    /\ Len(IssueCalls) <= Len(tasks_to_create)

\* C11 as stated: create_issue sends one POST per call; answered 201 it
\* returns the created issue with its number and title, answered anything
\* else, or not answered, it returns None.
C11_Original ==
  /\ OnePostPerCreateIssue
  /\ AfterCreateIssue =>
       IF reply.kind = "http" /\ reply.status = 201
       THEN /\ returned = "issue"
            /\ created_issues # << >>
            /\ {"number", "title"} \subseteq created_issues[Len(created_issues)].fields
       ELSE returned = "None"

\* C11 (amended): create_issue sends one POST per call and never retries;
\* it returns the body of the response, the issue with the number the remote
\* gave it, exactly when the response has status 201 and a JSON body whose
\* number can be read (with the title when the body holds one), and returns
\* None for every other status, for a transport error, and for a 201
\* response whose body cannot be read.
C11_CreateIssueResult ==
  /\ OnePostPerCreateIssue
  /\ AfterCreateIssue =>
       /\ pc \in {"issues", "project_owner"}
       /\ returned \in {"issue", "None"}
       /\ returned = "issue" <=>
            (reply.kind = "http" /\ reply.status = 201
               /\ reply.body \in {"full", "no_title"})
       /\ returned = "issue" =>
            LET issue == created_issues[Len(created_issues)]
                made == remoteIssues[Len(remoteIssues)]
            IN /\ "number" \in issue.fields /\ issue.number = made.number
               /\ "title" \in issue.fields <=> reply.body = "full"
               /\ "title" \in issue.fields =>
                    issue.title = calls[Len(calls)].json.title

\* a create_issue call answered 201 has returned the issue the remote made
C11_Witness ==
  /\ AfterCreateIssue
  /\ reply = Http(201, "full")
  /\ returned = "issue"
  /\ Len(created_issues) = 1 /\ created_issues[1].number = remoteIssues[1].number
  /\ created_issues[1].title = "[TASK-007] Create Configuration Management"

\* C12: created_issues holds exactly the issues of the create_issue calls
\* that succeeded, in the order of the selected tasks: one entry per call
\* that returned an issue and none for a call that returned None, so it is
\* never longer than the number of attempts made so far; every entry is an
\* issue the remote holds, the entries stand in the order the remote made
\* them, and the summary's "Issues created" is the number of successful calls.
C12_CreatedIssuesAreSuccesses ==
  script = Creator =>
    /\ Len(created_issues) = accepted
    /\ Len(created_issues) <= Len(IssueCalls)
    /\ \A k \in DOMAIN created_issues :
         LET issue == created_issues[k]
         IN /\ issue.present /\ "number" \in issue.fields
            /\ \E j \in DOMAIN remoteIssues :
                 /\ remoteIssues[j].number = issue.number
                 /\ "title" \in issue.fields => remoteIssues[j].title = issue.title
            /\ \A m \in DOMAIN created_issues :
                 k < m => issue.number < created_issues[m].number
    /\ report = "summary" => summary.issues = accepted

\* a run over TASK-008 and TASK-009 has printed its summary after the first
\* creation failed and the second succeeded
C12_Witness ==
  /\ report = "summary"
  /\ Len(IssueCalls) = 2
  /\ Len(created_issues) = 1
  /\ created_issues[1].title = "[TASK-009] Create Database Connection Service"
  /\ summary.issues = 1

\* the positions in the request log of the owner queries, the first request
\* of a create_project call
ProjectInvocations ==
  {k \in DOMAIN calls :
     calls[k].url = "https://api.github.com/graphql"
       /\ calls[k].json.query = "owner_query"}

\* C13: in a creator run that reaches issue creation, create_project is
\* invoked exactly once, after the last issue-creation attempt and whatever
\* those attempts were answered: no GraphQL request precedes an issue
\* request, and every selected task has had its attempt by then.  When
\* create_project fails (returns None) main still prints its summary, which
\* shows no project board, and the failure decides nothing else: the run
\* then ends abnormally exactly when a created issue lacks a field the
\* summary prints.
C13_ProjectOnceAfterIssues ==
  (script = Creator /\ tasks_to_create # << >>) =>
    LET inv == ProjectInvocations
        started == pc \in {"project_create", "summary"} \/ report = "summary"
    IN /\ \A k \in inv : \A j \in inv : j = k
       /\ started <=> inv # {}
       /\ \A k \in DOMAIN calls :
            calls[k].url = "https://api.github.com/graphql" =>
              /\ \A j \in DOMAIN calls :
                   (calls[j].method = "POST" /\ calls[j].url = IssuesUrl) => j < k
              /\ Len(IssueCalls) = Len(tasks_to_create)
       /\ (started /\ pc # "project_create" /\ project = NoProject) =>
            /\ pc \in {"summary", "done", "crashed"}
            /\ pc \in {"done", "crashed"} =>
                 /\ report = "summary"
                 /\ summary.labels = 25
                 /\ summary.issues = Len(created_issues)
                 /\ ~summary.board
                 /\ pc = "crashed" <=>
                      \E i \in DOMAIN created_issues :
                        "title" \notin created_issues[i].fields

\* a run has ended with its summary after both issues were created and
\* create_project failed on its owner query
C13_Witness ==
  /\ pc = "done" /\ report = "summary"
  /\ Len(created_issues) = 2
  /\ Cardinality(ProjectInvocations) = 1
  /\ calls[Len(calls)].json.query = "owner_query"
  /\ reply = Http(500, "error")
  /\ project = NoProject
  /\ ~summary.board

\* the last request of the run is a GraphQL request of create_project with
\* the given query, answered 200 with a body of one of the given shapes
ProjectAnswered(query, shapes) ==
  /\ script = Creator /\ calls # << >>
  /\ calls[Len(calls)].url = "https://api.github.com/graphql"
  /\ calls[Len(calls)].json.query = query
  /\ reply.kind = "http" /\ reply.status = 200 /\ reply.body \in shapes

\* create_project has reported a failure and returned None to main, which
\* has gone on to its summary
ProjectFailedSoft ==
  /\ project = NoProject
  /\ returned = "None"
  /\ escaped # "create_project"
  /\ pc \in {"summary", "done", "crashed"}
  /\ pc = "summary" => printed >= 1
  /\ pc \in {"done", "crashed"} => (report = "summary" /\ ~summary.board)
  /\ pc = "crashed" =>
       \E i \in DOMAIN created_issues : "title" \notin created_issues[i].fields

\* C14: create_project is a two-step call that fails soft.  The mutation is
\* sent only directly after the owner query, once that was answered with the
\* owner's id.  A response of either step that lacks a field create_project
\* reads (the owner query's data, user or id; the mutation's data,
\* createProjectV2, projectV2 or url) makes it report a failure and return
\* None without raising, and main goes on to its summary.
C14_ProjectFailsSoft ==
  script = Creator =>
    /\ \A k \in DOMAIN calls :
         (calls[k].url = "https://api.github.com/graphql"
            /\ calls[k].json.query = "mutation") =>
           /\ k > 1
           /\ calls[k - 1].url = "https://api.github.com/graphql"
           /\ calls[k - 1].json.query = "owner_query"
           /\ k = Len(calls)
    /\ pc = "project_create" =>
         (calls # << >> /\ calls[Len(calls)].json.query = "owner_query"
            /\ reply = Http(200, "full"))
    /\ ProjectAnswered("owner_query", {"no_data", "no_user", "null_user", "no_id"})
         => ProjectFailedSoft
    /\ ProjectAnswered("mutation",
                       {"no_data", "null_data", "no_createProjectV2",
                        "no_projectV2", "null_project", "no_url"})
         => ProjectFailedSoft

\* the mutation was answered with a board that has no url: create_project
\* has returned None and the run has ended with its summary
C14_Witness ==
  /\ ProjectAnswered("mutation", {"no_url"})
  /\ project = NoProject
  /\ pc = "done" /\ report = "summary"
  /\ Len(created_issues) = 1

\* C15, read for the runs that pass main()'s configuration checks and select
\* at least one task (the other runs end on their error message by design):
\* whatever the remote answers, the run ends normally, with its summary
\* printed.
C15_RunEndsWithSummary ==
  (script = Creator /\ GITHUB_TOKEN # "" /\ REPO_OWNER # ""
     /\ tasks_to_create # << >> /\ pc \notin {"main", "select"}) =>
    /\ pc # "crashed"
    /\ escaped = "none"
    /\ pc = "done" => report = "summary"

\* C16: every remote call prints exactly one status line, whatever its
\* outcome: once a wrapper is done with a request (create_label's update
\* counted with the creation it follows, create_project's mutation with the
\* owner query before it), the lines it printed for it number one.
C16_OneStatusLinePerCall ==
  (calls # << >> /\ pc \notin {"label_patch", "project_create"}) => printed = 1

\* create_label has returned from the call that made the run's last request
AfterCreateLabel ==
  /\ script = Creator /\ calls # << >>
  /\ pc # "label_patch"
  /\ \E i \in DOMAIN LABEL_COLORS :
       \/ calls[Len(calls)] =
            [method |-> "POST", url |-> LabelsUrl, json |-> LabelData(i)]
       \/ calls[Len(calls)] =
            [method |-> "PATCH", url |-> LabelUrl(LABEL_COLORS[i].name),
             json |-> LabelData(i)]

\* the label was created or updated by the call: the last request, a
\* creation or an update, got its success status
LabelCallSucceeded ==
  /\ reply.kind = "http"
  /\ reply.status = (IF calls[Len(calls)].method = "POST" THEN 201 ELSE 200)

AfterCloseIssue ==
  /\ script = Closer /\ calls # << >>
  /\ calls[Len(calls)].method = "PATCH"
  /\ calls[Len(calls)].json = [state |-> "closed"]

\* C18: close_issue returns True exactly when its close PATCH is answered
\* with status 200, and False for every other status and for a transport
\* exception on the PATCH; what the comment request before it was answered
\* does not enter the value.
C18_CloseIssueResult ==
  AfterCloseIssue =>
    /\ returned \in {"True", "False"}
    /\ returned = "True" <=> (reply.kind = "http" /\ reply.status = 200)
    /\ returned = "True" => issues_to_close[closeIdx - 1].number \in remoteClosed

\* close_issue has returned True for issue 7 although its comment request
\* failed
C18_Witness ==
  /\ AfterCloseIssue
  /\ comment # NoComment
  /\ Len(calls) = 2
  /\ remoteComments = << >>
  /\ faults = 1
  /\ reply = Http(200, "issue")
  /\ returned = "True"

\* C19: execution is fully sequential.  In both scripts at most one HTTP
\* request is outstanding at any time; a request is outstanding only while
\* main() stands at the statement that issued it, and none is left when
\* main() is at a statement that issues none: each request has returned or
\* raised before main() moves on to the next.
C19_OneRequestAtATime ==
  /\ Len(outstanding) <= 1
  /\ outstanding # << >> =>
       /\ pc \in {"labels", "label_patch", "issues", "project_owner",
                   "project_create", "comment", "close"}
       /\ GITHUB_TOKEN # "" /\ REPO_OWNER # ""
       /\ outstanding[1].method \in {"POST", "PATCH"}
       /\ (pc \in {"label_patch", "close"}) <=> (outstanding[1].method = "PATCH")
  /\ pc \in {"main", "select", "summary", "done", "crashed"} => outstanding = << >>

\* the close request for issue 8 is outstanding, the three requests before
\* it have been answered
C19_Witness ==
  /\ script = Closer
  /\ Len(calls) = 3
  /\ Len(outstanding) = 1
  /\ outstanding[1] = Call("PATCH", IssueUrl(8), [state |-> "closed"])

\* the requests of the run so far with the given method and URL
Requests(method, url) ==
  {k \in DOMAIN calls : calls[k].method = method /\ calls[k].url = url}

\* no request is made twice: per catalog label at most one creation and at
\* most one update, one creation request per selected task reached so far,
\* at most two GraphQL requests; per close target at most one comment and at
\* most one close request
SingleAttempts ==
  LET repo == "https://api.github.com/repos/" \o REPO_OWNER \o "/devmet-app"
      graphql == Requests("POST", "https://api.github.com/graphql")
      issues == Requests("POST", repo \o "/issues")
  IN IF script = Creator
     THEN /\ \A i \in DOMAIN LABEL_COLORS :
               LET name == LABEL_COLORS[i].name
                   creations == {k \in Requests("POST", repo \o "/labels") :
                                   calls[k].json.name = name}
                   updates == Requests("PATCH", repo \o "/labels/" \o name)
               IN /\ Cardinality(creations) <= 1
                  /\ Cardinality(updates) <= 1
                  /\ Cardinality(updates) <= Cardinality(creations)
          /\ Cardinality(issues) = issueIdx - 1
          /\ Cardinality(issues) <= Len(tasks_to_create)
          /\ (pc \in {"project_owner", "project_create", "summary"}
                \/ report = "summary")
               => Cardinality(issues) = Len(tasks_to_create)
          /\ Cardinality(graphql) <= 2
          /\ Len(calls) <= 2 * 25 + Len(tasks_to_create) + 2
     ELSE /\ \A n \in {7, 8, 9} :
               /\ Cardinality(Requests("POST", repo \o "/issues/" \o ToString(n)
                                                \o "/comments")) <= 1
               /\ Cardinality(Requests("PATCH", repo \o "/issues/" \o ToString(n))) <= 1
          /\ Len(calls) <= 2 * 3

\* C20: every run terminates with single-attempt requests only: whatever
\* the remote answers, a creator run makes at most 2 requests per catalog
\* label (one creation, at most one update), exactly 1 request per selected
\* task and at most 2 GraphQL requests, a closer run makes at most 2 requests
\* per close target, and every run that is started comes to its end.
C20_SingleAttemptsAndTermination ==
  /\ []SingleAttempts
  /\ [](pc = "main" => <>(pc \in {"done", "crashed"}))

\* a creator run over two tasks has ended after 25 creations, 2 updates, 2
\* issue requests and 2 GraphQL requests, one of its requests having failed
C20_Witness ==
  /\ script = Creator /\ pc = "done" /\ report = "summary"
  /\ Len(tasks_to_create) = 2
  /\ faults = 1
  /\ Len(calls) = 25 + 2 + 2 + 2
  /\ Cardinality({k \in DOMAIN calls : calls[k].method = "PATCH"}) = 2

\* the close requests for issues 7, 8 and 9, in list order
CloseOnlyRequests ==
  LET base == "https://api.github.com/repos/" \o REPO_OWNER \o "/devmet-app/issues/"
      Close(n) == [method |-> "PATCH", url |-> base \o n, json |-> [state |-> "closed"]]
  IN << Close("7"), Close("8"), Close("9") >>

\* C21: when close_issue is called without a comment body (None or the empty
\* string), it makes no comment request and exactly one close PATCH request:
\* the call goes straight to the close attempt, so every request of the run
\* is the close of the next target, one per call of close_issue, and the
\* remote never stores a comment.
C21_NoCommentNoCommentRequest ==
  (script = Closer /\ comment = NoComment) =>
    /\ pc # "comment"
    /\ remoteComments = << >>
    /\ Len(calls) <= Len(CloseOnlyRequests)
    /\ \A k \in DOMAIN calls : calls[k] = CloseOnlyRequests[k]
    /\ \A k \in DOMAIN outstanding : outstanding[k].method = "PATCH"
    /\ Len(calls) = closeIdx - 1
    /\ pc = "close" => Len(calls) + Len(outstanding) \in {closeIdx - 1, closeIdx}

\* a closer run without a comment has ended after three requests, all of them
\* close requests, one of which failed
C21_Witness ==
  /\ script = Closer /\ comment = NoComment
  /\ pc = "done" /\ runs = 1
  /\ calls = CloseOnlyRequests
  /\ faults = 1
  /\ remoteClosed = {7, 9}

\* every target of the closer's list was attempted: its close request, and
\* its comment request when a comment is given, are in the log
AllTargetsAttempted ==
  \A i \in DOMAIN issues_to_close :
     LET n == issues_to_close[i].number
     IN /\ Cardinality(Requests("PATCH", IssueUrl(n))) = 1
        /\ comment # NoComment => Cardinality(Requests("POST", CommentsUrl(n))) = 1

\* the closer does not stop at a failure: no exception ends it, its loop
\* position only moves forward through the list, and a run that has ended
\* attempted every target and printed the closing report
CloserKeepsGoing ==
  (script = Closer /\ ~ConfigMissing) =>
    /\ pc # "crashed" /\ escaped = "none"
    /\ closeIdx \in 1..(Len(issues_to_close) + 1)
    /\ \A k \in DOMAIN calls :
         \A j \in DOMAIN calls :
            (k < j /\ calls[k].method = "PATCH" /\ calls[j].method = "PATCH")
              => \E a, b \in DOMAIN issues_to_close :
                    /\ a < b
                    /\ calls[k].url = IssueUrl(issues_to_close[a].number)
                    /\ calls[j].url = IssueUrl(issues_to_close[b].number)
    /\ pc = "done" <=> report = "closer_done"
    /\ pc = "done" => AllTargetsAttempted

\* C22: the closer's main processes every close target in list order (7,
\* then 8, then 9): a failed comment or a failed close of one target never
\* prevents the attempts for the targets after it, and every configured run
\* that starts comes to print the final "Done" report whatever the outcomes.
C22_CloserProcessesEveryTarget ==
  /\ []CloserKeepsGoing
  /\ []((script = Closer /\ ~ConfigMissing /\ pc = "main")
          => <>(pc = "done" /\ report = "closer_done" /\ AllTargetsAttempted))

\* a closer run has printed its closing report after six requests although
\* the close of issue 7, the first target, failed
C22_Witness ==
  /\ script = Closer /\ comment # NoComment
  /\ pc = "done" /\ runs = 1 /\ report = "closer_done"
  /\ Len(calls) = 6
  /\ remoteComments = <<7, 8, 9>>
  /\ remoteClosed = {8, 9}

IsGraphql(c, query) == c.url = GraphqlUrl /\ c.json.query = query

\* the positions of the log holding the create mutation
MutationCalls == {k \in DOMAIN calls : IsGraphql(calls[k], "mutation")}

MutationOutstanding ==
  \E k \in DOMAIN outstanding : IsGraphql(outstanding[k], "mutation")

\* the last answered request is the owner query and its answer gave the
\* owner identifier
OwnerIdObtained ==
  /\ calls # << >> /\ IsGraphql(Last(calls), "owner_query")
  /\ reply = Http(200, "full")

\* the mutation is in flight only at the mutation statement, which is reached
\* only with the owner identifier; an answered mutation is the last request
\* of the run and follows the owner query; an owner query that failed is the
\* last request of the run
MutationFollowsOwnerId ==
  script = Creator =>
    /\ Cardinality(MutationCalls) <= 1
    /\ MutationOutstanding => (pc = "project_create" /\ MutationCalls = {})
    /\ pc = "project_create" => (OwnerIdObtained /\ MutationCalls = {})
    /\ \A k \in MutationCalls :
         /\ k = Len(calls) /\ k > 1
         /\ IsGraphql(calls[k - 1], "owner_query")
         /\ pc \in {"summary", "done", "crashed"}
    /\ (calls # << >> /\ IsGraphql(Last(calls), "owner_query")
          /\ reply # Http(200, "full"))
         => (pc \in {"summary", "done", "crashed"} /\ outstanding = << >>)

\* C23: in create_project, when the owner-identifier query is answered with
\* a status other than 200 or raises (or its body holds no identifier), the
\* create mutation is never sent: the step that sends the mutation is taken
\* only when the owner query was the request answered last and gave the
\* identifier, and a run sends the mutation at most once.
C23_MutationOnlyWithOwnerId ==
  /\ []MutationFollowsOwnerId
  /\ [][(MutationOutstanding' /\ ~MutationOutstanding)
          => (OwnerIdObtained /\ MutationCalls = {})]_vars

\* a creator run has printed its summary after an owner query answered 500:
\* the owner query is its last request and no board exists
C23_Witness ==
  /\ script = Creator
  /\ pc = "done" /\ report = "summary"
  /\ IsGraphql(Last(calls), "owner_query")
  /\ reply = Http(500, "error")
  /\ MutationCalls = {}
  /\ remoteProjects = 0 /\ ~project.present

\* the phase a request of the creator belongs to: 1 for a label creation or
\* update, 2 for an issue creation, 3 for a GraphQL project request
PhaseOf(c, labelUrls) ==
  IF c.url = GraphqlUrl THEN 3
  ELSE IF c.url = IssuesUrl THEN 2
  ELSE IF c.url \in labelUrls THEN 1
  ELSE 0

\* C24: in a creator run the phases are strictly ordered: over the requests
\* answered and in flight, every label request (create or update) precedes
\* the first issue-creation request and every issue-creation request precedes
\* the first GraphQL project request, so no label request follows an issue
\* request; the first issue request is made once create_all_labels went
\* through the whole catalog, and the first project request once the loop
\* over the selected tasks ended.
C24_PhasesOrdered ==
  script = Creator =>
    LET labelUrls == {LabelsUrl}
                       \cup {LabelUrl(LABEL_COLORS[i].name) : i \in DOMAIN LABEL_COLORS}
        all == calls \o outstanding
        ph == [k \in DOMAIN all |-> PhaseOf(all[k], labelUrls)]
    IN /\ \A k \in DOMAIN ph : ph[k] \in 1..3
       /\ \A k, j \in DOMAIN ph : k < j => ph[k] <= ph[j]
       /\ (\E k \in DOMAIN ph : ph[k] >= 2)
            => /\ labelIdx > Len(LABEL_COLORS)
               /\ Len(LabelPosts) = Len(LABEL_COLORS)
       /\ (\E k \in DOMAIN ph : ph[k] = 3)
            => /\ issueIdx > Len(tasks_to_create)
               /\ Len(IssueCalls) = Len(tasks_to_create)

\* the create mutation is in flight after a label phase that updated a
\* label, two issue creations and the owner query
C24_Witness ==
  /\ script = Creator
  /\ pc = "project_create" /\ MutationOutstanding
  /\ conflicts # {}
  /\ Len(IssueCalls) = 2
  /\ Len(calls) > Len(LABEL_COLORS) + 3

\* identifiers were supplied and none of them is in ALL_TASKS
NoneKnown == SuppliedIds # << >> /\ ValidSupplied = << >>

\* C25: when identifiers are supplied but none of them is in ALL_TASKS, the
\* creator stops after printing "No valid tasks to create!" with no remote
\* call made: a warning was printed for each identifier, no label is
\* synchronized, no issue and no project board is created, no summary is
\* printed; identifiers given on the command line that are all unknown do
\* not fall back to the static TASKS_TO_CREATE list.
C25_NoValidTasksNoCalls ==
  (script = Creator /\ ~ConfigMissing /\ NoneKnown) =>
    /\ pc \in {"main", "select", "done"}
    /\ calls = << >> /\ outstanding = << >> /\ reply = NoReply
    /\ tasks_to_create = << >> /\ created_issues = << >>
    /\ labelIdx = 1 /\ issueIdx = 1 /\ ~project.present
    /\ remoteLabels \in RemoteLabelChoices /\ ~synced.taken
    /\ remoteIssues = << >> /\ remoteProjects = 0
    /\ summary = NoSummary /\ listed = << >>
    /\ pc = "done" => (report = "no_valid_tasks" /\ warned = SuppliedIds)
    /\ pc # "done" => warned = << >>

\* a creator run given one unknown identifier on the command line, with two
\* catalog identifiers in the static list, has ended on "No valid tasks"
C25_Witness ==
  /\ script = Creator /\ ~ConfigMissing
  /\ argv = <<"TASK-999">>
  /\ Len(SelectSeq(TASKS_TO_CREATE, InTasks)) = 2
  /\ pc = "done" /\ report = "no_valid_tasks"
  /\ warned = <<"TASK-999">>
  /\ calls = << >>

\* how often the identifier id was supplied to the run
Occurrences(id) ==
  Cardinality({i \in DOMAIN SuppliedIds : SuppliedIds[i] = id})

\* the issue-creation requests of the run that carry the given title
TitledCalls(title) ==
  {k \in DOMAIN calls : IsIssuePost(calls[k]) /\ calls[k].json.title = title}

\* C26: issue creation is not deduplicated: once the issue loop of a run has
\* ended, an identifier of ALL_TASKS supplied k times has had k
\* issue-creation requests with the same title, in the first run and in a
\* later run against a remote that already holds issues with that title
\* alike; and no request of a run reads from the remote (every request is a
\* POST or a PATCH), so none checks whether such an issue exists.
C26_IssuesNotDeduplicated ==
  script = Creator =>
    /\ \A k \in DOMAIN calls : calls[k].method \in {"POST", "PATCH"}
    /\ IssuesEnded =>
         \A i \in DOMAIN ALL_TASKS :
            Cardinality(TitledCalls("[" \o ALL_TASKS[i].key \o "] " \o ALL_TASKS[i].title))
              = Occurrences(ALL_TASKS[i].key)

\* a second run given one catalog identifier twice has ended: it made two
\* identical issue-creation requests, as the first run had, and the remote
\* holds four issues with that one title
C26_Witness ==
  /\ script = Creator
  /\ runs = 2 /\ pc = "done" /\ report = "summary"
  /\ Len(SuppliedIds) = 2 /\ SuppliedIds[1] = SuppliedIds[2]
  /\ Len(IssueCalls) = 2 /\ IssueCalls[1] = IssueCalls[2]
  /\ Len(remoteIssues) = 4
  /\ \A i \in DOMAIN remoteIssues : remoteIssues[i].title = IssueCalls[1].json.title

\* the keys of LABEL_COLORS
CatalogLabels == {LABEL_COLORS[i].name : i \in DOMAIN LABEL_COLORS}

\* the five label values of a task
TaskLabels(task) ==
  {task.priority, task.type, task.category, task.size, task.sprint}

\* every task's mapping key is its "id" and its five label values are keys
\* of LABEL_COLORS
CatalogConsistent ==
  \A i \in DOMAIN ALL_TASKS :
     /\ ALL_TASKS[i].key = ALL_TASKS[i].id
     /\ TaskLabels(ALL_TASKS[i]) \subseteq CatalogLabels

\* the label names of the issue-creation requests sent so far in this run
RequestedLabels ==
  UNION {{r.json.labels[n] : n \in DOMAIN r.json.labels} :
           r \in {calls[k] : k \in {j \in DOMAIN calls : IsIssuePost(calls[j])}}
                  \cup {outstanding[k] :
                          k \in {j \in DOMAIN outstanding : IsIssuePost(outstanding[j])}}}

\* C27: catalog consistency: for every task in ALL_TASKS the mapping key
\* equals the "id" field and each of the five label values (priority, type,
\* category, size, sprint) is a key of LABEL_COLORS; so once a run's label
\* synchronization has ended with every label request answered by success,
\* every label an issue-creation request names, for the requests the run
\* sends and for any task of the catalog, exists on the remote.
C27_CatalogConsistency ==
  /\ CatalogConsistent
  /\ (SyncEnded /\ syncOk) =>
       /\ \A l \in RequestedLabels : l \in CatalogLabels /\ remoteLabels[l].exists
       /\ \A i \in DOMAIN ALL_TASKS :
            LET body == create_task_issue_body(ALL_TASKS[i])
            IN \A n \in DOMAIN body.labels :
                  /\ body.labels[n] \in CatalogLabels
                  /\ remoteLabels[body.labels[n]].exists

\* after a label synchronization on an empty repository in which every
\* request succeeded, an issue-creation request naming five labels was
\* answered 201
C27_Witness ==
  /\ script = Creator /\ runs = 1
  /\ SyncEnded /\ syncOk /\ conflicts = {}
  /\ calls # << >> /\ IsIssuePost(Last(calls))
  /\ Cardinality(RequestedLabels) = 5
  /\ reply = Http(201, "full")

\* a catalog label that the remote does not hold
SomeLabelMissing ==
  \E i \in DOMAIN LABEL_COLORS : ~remoteLabels[LABEL_COLORS[i].name].exists

\* C28: the summary's "Labels ensured" figure is always the size of the
\* label catalog (25), whatever the outcomes of the label requests: it is
\* that number when a label request failed and the remote lacks the label as
\* when every request succeeded; a run that prints no summary prints no
\* figure.
C28_LabelsEnsuredIsCatalogSize ==
  /\ report = "summary" =>
       /\ summary.labels = Cardinality(CatalogLabels)
       /\ summary.labels = 25
  /\ report # "summary" => summary = NoSummary

\* a summary was printed with the figure 25 after a run in which the
\* creation of a label failed: the remote lacks that label
C28_Witness ==
  /\ script = Creator /\ runs = 1
  /\ report = "summary" /\ summary.labels = 25
  /\ ~syncOk /\ SomeLabelMissing
  /\ Len(LabelPosts) = 25

====
